---- MODULE Spec2Model ----
(***************************************************************************)
(* State-machine model of chrome-post-messages:                            *)
(*   BaseClientManager     (src/src/managers/baseClientManager.ts)         *)
(*   ListenerManager       (src/src/managers/listenerManager.ts)           *)
(*   ConnectionManager     (src/src/managers/connectionManager.ts)         *)
(*   BaseBackgroundManager (src/unnamed/part_001)                          *)
(* Each component has its own specification (SpecClient, SpecLM, SpecPair, *)
(* SpecCM, SpecHub, SpecHubListen, SpecAccept); the variables of the other *)
(* components stay at their initial values.                                *)
(***************************************************************************)
EXTENDS Integers, Sequences, FiniteSets, TLC

VARIABLES
    port,             \* BaseClientManager.port: 0 (null) or the id of a channel
    pendingMessages,  \* BaseClientManager.pendingMessages
    queries,          \* chrome.tabs.query calls whose callback has not run yet
    channels,         \* every channel this client opened with chrome.runtime.connect
    posted,           \* every postMessage call of the client: [port, message]
    sendCount,        \* number of sendMessage calls so far (numbers the messages)
    clientErrors,     \* logger.error calls of the client
    listeners,        \* ListenerManager.listeners: type -> Set object (0: no entry)
    sets,             \* the Set objects ever created, each in insertion order
    closures,         \* the unsubscribe closures ever returned by subscribe
    subscribed,       \* history: (type, listener) pairs subscribed and not unsubscribed since
    connections,      \* ConnectionManager.connections, in property order
    hubPorts,         \* every port that reached chrome.runtime.onConnect of the hub
    dispatched,       \* history: ports whose message reached the hub's notify
    hubLog,           \* logger calls of the hub: [error, info]
    added,            \* history: the last addConnection of each key not removed since
    last              \* the last operation and what it returned / called

vars == <<port, pendingMessages, queries, channels, posted, sendCount, clientErrors,
          listeners, sets, closures, subscribed, connections, hubPorts, dispatched, hubLog, added, last>>

clientVars == <<port, pendingMessages, queries, channels, posted, sendCount, clientErrors>>
lmVars == <<listeners, sets, closures, subscribed>>
hubVars == <<connections, hubPorts, dispatched, hubLog, added>>

(***************************************************************************)
(* Bounds                                                                  *)
(***************************************************************************)
MaxSends == 4
MaxClosures == 3
MaxPorts == 2
MaxHubSubs == 1
MaxAcceptPorts == 1
MaxClientSubs == 2
MaxListenSends == 2
MaxLiveSends == 3
MaxTabId == 40

(***************************************************************************)
(* Values                                                                  *)
(***************************************************************************)
NoPort == 0
ClientLayer == <<"devtools", "popup", "options">>
ClientLayers == {ClientLayer[i] : i \in 1..Len(ClientLayer)}
Types == {"t1", "t2"}
Listeners == {"f", "g"}
Layer == "popup"
TabResults == {<<>>, <<7>>, <<42>>}
NoOp == [op |-> "none"]
Data == {"d1", "d2"}
Senders == {NoPort, 1}
PairType == "t1"
PairListener == "f"
\* a number (TabId): sign, whole part and fraction digits; Num(n) is the integer n
Num(n) == [neg |-> FALSE, whole |-> n, frac |-> <<>>]
TabIds == {Num(5), Num(7)}
LookupTabIds == {Num(5)}
HubTabIds == {Num(7), Num(42)}
HubMessages == [type : Types, data : {"d1"}]
ListenMessages == [type : {"t1"}, data : {"d1"}]
DigitChars == <<"0", "1", "2", "3", "4", "5", "6", "7", "8", "9">>
LayerChars == [v \in ClientLayers |->
                 CASE v = "devtools" -> <<"d", "e", "v", "t", "o", "o", "l", "s">>
                   [] v = "popup" -> <<"p", "o", "p", "u", "p">>
                   [] v = "options" -> <<"o", "p", "t", "i", "o", "n", "s">>]

\* candidate port names: a role token, then nothing or a colon and a tab part,
\* then nothing or a further colon-separated segment
RoleTokens == {LayerChars[v] : v \in ClientLayers}
                \cup {<<"b", "o", "g", "u", "s">>, <<>>, <<" ">> \o LayerChars["popup"]}
TabParts == {<<"4", "2">>, <<"7">>, <<"0">>, <<"0", "7">>, <<>>, <<"a", "b", "c">>,
             <<"-", "1">>, <<"+", "7">>, <<"1", ".", "5">>, <<" ", "4", "2">>,
             <<"4", "2", " ">>, <<" ">>, <<"4", "2", "a">>}
Suffixes == {<<>>, <<":", "x">>, <<":", "7">>}
Names == RoleTokens
           \cup {r \o <<":">> \o t \o x : r \in RoleTokens, t \in TabParts, x \in Suffixes}
ListenNames == {LayerChars["popup"] \o <<":", "4", "2">>, LayerChars["popup"] \o <<":">>,
                <<"b", "o", "g", "u", "s", ":", "4", "2">>,
                LayerChars["popup"] \o <<":", "a", "b", "c">>}
HubNames == {LayerChars["devtools"] \o <<":", "7">>, LayerChars["popup"] \o <<":", "7">>,
             LayerChars["popup"] \o <<":", "4", "2">>, LayerChars["popup"] \o <<":">>,
             <<"b", "o", "g", "u", "s", ":", "4", "2">>,
             LayerChars["popup"] \o <<":", "a", "b", "c">>}
CMPorts == {1, 2}

Range(s) == {s[i] : i \in 1..Len(s)}

(***************************************************************************)
(* ListenerManager                                                         *)
(***************************************************************************)
\* Set.prototype.add: a Set keeps insertion order and holds a value once
SetAddDup(s, l) == Append(s, l)

SetAdd(s, l) == IF l \in Range(s) THEN s ELSE Append(s, l)

\* Set.prototype.delete
SetDelete(s, l) == SelectSeq(s, LAMBDA x : x # l)

\* the listeners a type is mapped to, as a caller of the registry sees them
Registry == [t \in Types |->
                IF listeners[t] = 0 THEN [present |-> FALSE, listeners |-> <<>>]
                ELSE [present |-> TRUE, listeners |-> sets[listeners[t]]]]

\* subscribe(type, listener): returns closure number Len(closures) + 1, which
\* holds the Set object it added the listener to
Subscribe(t, l) ==
    /\ Len(closures) < MaxClosures
    /\ LET has == listeners[t] # 0
           sid == IF has THEN listeners[t] ELSE Len(sets) + 1
           sets1 == IF has THEN sets ELSE Append(sets, <<>>) IN
       /\ sets' = [sets1 EXCEPT ![sid] = SetAdd(@, l)]
       /\ listeners' = [listeners EXCEPT ![t] = sid]
       /\ closures' = Append(closures, [type |-> t, listener |-> l, set |-> sid,
                                       invoked |-> FALSE, cleared |-> FALSE])
    /\ subscribed' = subscribed \cup {<<t, l>>}
    /\ last' = [op |-> "subscribe", type |-> t, listener |-> l]
    /\ UNCHANGED clientVars /\ UNCHANGED hubVars

\* the closure returned by subscribe is invoked
UnsubscribeKeepEntry(c) ==
    /\ c \in 1..Len(closures)
    /\ LET cl == closures[c]
           s1 == SetDelete(sets[cl.set], cl.listener) IN
       /\ sets' = [sets EXCEPT ![cl.set] = s1]
       /\ listeners' = listeners
       /\ closures' = [closures EXCEPT ![c].invoked = TRUE]
       /\ subscribed' = subscribed \ {<<cl.type, cl.listener>>}
       /\ last' = [op |-> "unsubscribe", closure |-> c, again |-> cl.invoked]
    /\ UNCHANGED clientVars /\ UNCHANGED hubVars

Unsubscribe(c) ==
    /\ c \in 1..Len(closures)
    /\ LET cl == closures[c]
           s1 == SetDelete(sets[cl.set], cl.listener) IN
       /\ sets' = [sets EXCEPT ![cl.set] = s1]
       /\ listeners' = IF Len(s1) = 0 THEN [listeners EXCEPT ![cl.type] = 0] ELSE listeners
       /\ closures' = [closures EXCEPT ![c].invoked = TRUE]
       /\ subscribed' = subscribed \ {<<cl.type, cl.listener>>}
       /\ last' = [op |-> "unsubscribe", closure |-> c, again |-> cl.invoked]
    /\ UNCHANGED clientVars /\ UNCHANGED hubVars

\* listeners.clear()
Clear(ls) == [t \in Types |-> 0]

\* the closures handed out so far, once clear() has detached their Sets
Detached(cls) == [c \in 1..Len(cls) |-> [cls[c] EXCEPT !.cleared = TRUE]]

\* clear()
LMClear ==
    /\ listeners' = Clear(listeners)
    /\ closures' = Detached(closures)
    /\ subscribed' = {}
    /\ last' = [op |-> "clear"]
    /\ UNCHANGED sets
    /\ UNCHANGED clientVars /\ UNCHANGED hubVars

\* the for-of loop of notify over one Set; thr are the listeners that throw
\* when invoked with this message
RECURSIVE InvokeAllNoCatch(_, _, _, _)
InvokeAllNoCatch(s, message, senderPort, thr) ==
    IF s = <<>> THEN [calls |-> <<>>, errors |-> 0, failed |-> FALSE]
    ELSE LET call == [listener |-> s[1], message |-> message, senderPort |-> senderPort] IN
         IF s[1] \in thr THEN [calls |-> <<call>>, errors |-> 0, failed |-> TRUE]
         ELSE LET rest == InvokeAllNoCatch(Tail(s), message, senderPort, thr) IN
              [calls |-> <<call>> \o rest.calls, errors |-> rest.errors, failed |-> rest.failed]

RECURSIVE InvokeAll(_, _, _, _)
InvokeAll(s, message, senderPort, thr) ==
    IF s = <<>> THEN [calls |-> <<>>, errors |-> 0, failed |-> FALSE]
    ELSE LET call == [listener |-> s[1], message |-> message, senderPort |-> senderPort]
             rest == InvokeAll(Tail(s), message, senderPort, thr) IN
         [calls |-> <<call>> \o rest.calls,
          errors |-> (IF s[1] \in thr THEN 1 ELSE 0) + rest.errors,
          failed |-> rest.failed]

\* notify(message, senderPort): the listener calls and logger calls it makes
NotifyResultSilent(message, senderPort, thr) ==
    IF listeners[message.type] = 0
    THEN [op |-> "notify", message |-> message, senderPort |-> senderPort, thr |-> thr,
          calls |-> <<>>, warns |-> 0, errors |-> 0, failed |-> FALSE]
    ELSE LET r == InvokeAll(sets[listeners[message.type]], message, senderPort, thr) IN
         [op |-> "notify", message |-> message, senderPort |-> senderPort, thr |-> thr,
          calls |-> r.calls, warns |-> 0, errors |-> r.errors, failed |-> r.failed]

NotifyResult(message, senderPort, thr) ==
    IF listeners[message.type] = 0
    THEN [op |-> "notify", message |-> message, senderPort |-> senderPort, thr |-> thr,
          calls |-> <<>>, warns |-> 1, errors |-> 0, failed |-> FALSE]
    ELSE LET r == InvokeAll(sets[listeners[message.type]], message, senderPort, thr) IN
         [op |-> "notify", message |-> message, senderPort |-> senderPort, thr |-> thr,
          calls |-> r.calls, warns |-> 0, errors |-> r.errors, failed |-> r.failed]

Notify(message, senderPort, thr) ==
    /\ last' = NotifyResult(message, senderPort, thr)
    /\ UNCHANGED lmVars /\ UNCHANGED clientVars /\ UNCHANGED hubVars

(***************************************************************************)
(* BaseClientManager                                                       *)
(***************************************************************************)
\* String(n) of a non-negative integer
RECURSIVE ToDecimalString(_)
ToDecimalString(n) ==
    IF n < 10 THEN <<DigitChars[n + 1]>>
    ELSE ToDecimalString(n \div 10) \o <<DigitChars[(n % 10) + 1]>>

\* String(n) of an integer
IntegerToString(n) == IF n < 0 THEN <<"-">> \o ToDecimalString(0 - n) ELSE ToDecimalString(n)

\* the template literal `${layer}:${tabId}`
PortNameReversed(layer, tabId) == IntegerToString(tabId) \o <<":">> \o LayerChars[layer]

PortName(layer, tabId) == LayerChars[layer] \o <<":">> \o IntegerToString(tabId)

\* initPort as seen by its caller: returns at once when a port exists,
\* otherwise issues one more chrome.tabs.query
InitPort(p, q) == IF p # NoPort THEN q ELSE q + 1

\* flushPendingMessages: posts the queue in order on port p, then empties it
FlushPendingMessagesLeaky(p, pending, post) ==
    IF p = NoPort
    THEN [pendingMessages |-> pending, posted |-> post]
    ELSE [pendingMessages |-> pending,
          posted |-> post \o [i \in 1..Len(pending) |-> [port |-> p, message |-> pending[i]]]]

FlushPendingMessagesDrop(p, pending, post) ==
    IF p = NoPort
    THEN [pendingMessages |-> pending, posted |-> post]
    ELSE [pendingMessages |-> <<>>, posted |-> post]

FlushPendingMessages(p, pending, post) ==
    IF p = NoPort
    THEN [pendingMessages |-> pending, posted |-> post]
    ELSE [pendingMessages |-> <<>>,
          posted |-> post \o [i \in 1..Len(pending) |-> [port |-> p, message |-> pending[i]]]]

\* sendMessage(message)
SendMessagePrepending(t) ==
    /\ sendCount < MaxSends
    /\ LET message == [type |-> t, data |-> sendCount + 1] IN
       /\ IF port = NoPort
          THEN /\ pendingMessages' = <<message>> \o pendingMessages
               /\ queries' = InitPort(port, queries)
               /\ posted' = posted
          ELSE /\ posted' = Append(posted, [port |-> port, message |-> message])
               /\ UNCHANGED <<pendingMessages, queries>>
       /\ last' = [op |-> "sendMessage", message |-> message]
    /\ sendCount' = sendCount + 1
    /\ UNCHANGED <<port, channels, clientErrors>>
    /\ UNCHANGED lmVars /\ UNCHANGED hubVars

SendMessage(t) ==
    /\ sendCount < MaxSends
    /\ LET message == [type |-> t, data |-> sendCount + 1] IN
       /\ IF port = NoPort
          THEN /\ pendingMessages' = Append(pendingMessages, message)
               /\ queries' = InitPort(port, queries)
               /\ posted' = posted
          ELSE /\ posted' = Append(posted, [port |-> port, message |-> message])
               /\ UNCHANGED <<pendingMessages, queries>>
       /\ last' = [op |-> "sendMessage", message |-> message]
    /\ sendCount' = sendCount + 1
    /\ UNCHANGED <<port, channels, clientErrors>>
    /\ UNCHANGED lmVars /\ UNCHANGED hubVars

\* the callback of chrome.tabs.query, run with the tabs it found
TabsQueryCallbackDropping(tabs) ==
    /\ queries > 0
    /\ queries' = queries - 1
    /\ IF Len(tabs) = 0 \/ tabs[1] = 0
       THEN /\ clientErrors' = clientErrors + 1
            /\ pendingMessages' = <<>>
            /\ last' = [op |-> "noTab"]
            /\ UNCHANGED <<port, channels, posted>>
       ELSE LET p == Len(channels) + 1
                f == FlushPendingMessages(p, pendingMessages, posted) IN
            /\ channels' = Append(channels, [name |-> PortName(Layer, tabs[1]), layer |-> Layer,
                                           tabId |-> tabs[1], connected |-> TRUE])
            /\ port' = p
            /\ pendingMessages' = f.pendingMessages
            /\ posted' = f.posted
            /\ last' = [op |-> "connect", port |-> p]
            /\ UNCHANGED clientErrors
    /\ UNCHANGED sendCount
    /\ UNCHANGED lmVars /\ UNCHANGED hubVars

TabsQueryCallback(tabs) ==
    /\ queries > 0
    /\ queries' = queries - 1
    /\ IF Len(tabs) = 0 \/ tabs[1] = 0
       THEN /\ clientErrors' = clientErrors + 1
            /\ last' = [op |-> "noTab"]
            /\ UNCHANGED <<port, pendingMessages, channels, posted>>
       ELSE LET p == Len(channels) + 1
                f == FlushPendingMessages(p, pendingMessages, posted) IN
            /\ channels' = Append(channels, [name |-> PortName(Layer, tabs[1]), layer |-> Layer,
                                           tabId |-> tabs[1], connected |-> TRUE])
            /\ port' = p
            /\ pendingMessages' = f.pendingMessages
            /\ posted' = f.posted
            /\ last' = [op |-> "connect", port |-> p]
            /\ UNCHANGED clientErrors
    /\ UNCHANGED sendCount
    /\ UNCHANGED lmVars /\ UNCHANGED hubVars

\* onDisconnect of channel c fires: handlePortDisconnect
ClientPortDisconnectKeepPort(c) ==
    /\ c \in 1..Len(channels)
    /\ channels[c].connected
    /\ channels' = [channels EXCEPT ![c].connected = FALSE]
    /\ listeners' = Clear(listeners)
    /\ closures' = Detached(closures)
    /\ subscribed' = {}
    /\ port' = port
    /\ last' = [op |-> "clientDisconnect", port |-> c]
    /\ UNCHANGED <<pendingMessages, queries, posted, sendCount, clientErrors>>
    /\ UNCHANGED sets /\ UNCHANGED hubVars

ClientPortDisconnect(c) ==
    /\ c \in 1..Len(channels)
    /\ channels[c].connected
    /\ channels' = [channels EXCEPT ![c].connected = FALSE]
    /\ listeners' = Clear(listeners)
    /\ closures' = Detached(closures)
    /\ subscribed' = {}
    /\ port' = NoPort
    /\ last' = [op |-> "clientDisconnect", port |-> c]
    /\ UNCHANGED <<pendingMessages, queries, posted, sendCount, clientErrors>>
    /\ UNCHANGED sets /\ UNCHANGED hubVars

\* subscribe(type, listener) of the client
ClientSubscribe(t, l) ==
    /\ Len(closures) < MaxClientSubs
    /\ Subscribe(t, l)

\* onMessage of channel c fires: handleIncomingMessage
ClientIncomingMessage(c, message, thr) ==
    /\ c \in 1..Len(channels)
    /\ channels[c].connected
    /\ IF port = NoPort
       THEN last' = [op |-> "unobserved", port |-> c]
       ELSE last' = NotifyResult(message, port, thr)
    /\ UNCHANGED clientVars /\ UNCHANGED lmVars /\ UNCHANGED hubVars

(***************************************************************************)
(* ConnectionManager                                                       *)
(* connections is the object in property order: a sequence of              *)
(* [tabId, layers] entries, layers a sequence of [layer, port] properties; *)
(* port 0 is a property whose value is undefined.                          *)
(***************************************************************************)
\* the position of property tabId in connections, 0 when it has none
TabIndex(conns, tabId) ==
    IF \E i \in 1..Len(conns) : conns[i].tabId = tabId
    THEN CHOOSE i \in 1..Len(conns) : conns[i].tabId = tabId
    ELSE 0

\* the position of property layer in a per-tab record, 0 when it has none
LayerIndex(layers, layer) ==
    IF \E i \in 1..Len(layers) : layers[i].layer = layer
    THEN CHOOSE i \in 1..Len(layers) : layers[i].layer = layer
    ELSE 0

\* a number whose property key is an integer index
IsIndexKey(n) == ~n.neg /\ n.frac = <<>>

\* a new property of an object: integer keys come first, in ascending order,
\* the other keys follow in insertion order
InsertTab(conns, entry) ==
    IF IsIndexKey(entry.tabId)
    THEN LET before == {i \in 1..Len(conns) :
                           IsIndexKey(conns[i].tabId) /\ conns[i].tabId.whole < entry.tabId.whole}
             n == Cardinality(before) IN
         SubSeq(conns, 1, n) \o <<entry>> \o SubSeq(conns, n + 1, Len(conns))
    ELSE Append(conns, entry)

\* the record addConnection creates for a tab it does not know yet
NewTabRecord == [i \in 1..Len(ClientLayer) |-> [layer |-> ClientLayer[i], port |-> NoPort]]

\* tabConnections[layer] = port
SetLayerKeepFirst(layers, layer, p) ==
    IF LayerIndex(layers, layer) = 0
    THEN Append(layers, [layer |-> layer, port |-> p])
    ELSE IF layers[LayerIndex(layers, layer)].port # NoPort THEN layers
    ELSE [layers EXCEPT ![LayerIndex(layers, layer)].port = p]

SetLayer(layers, layer, p) ==
    IF LayerIndex(layers, layer) = 0
    THEN Append(layers, [layer |-> layer, port |-> p])
    ELSE [layers EXCEPT ![LayerIndex(layers, layer)].port = p]

\* addConnection({layer, tabId}, port)
AddConnection(conns, tabId, layer, p) ==
    LET conns1 == IF TabIndex(conns, tabId) = 0
                  THEN InsertTab(conns, [tabId |-> tabId, layers |-> NewTabRecord])
                  ELSE conns
        i == TabIndex(conns1, tabId) IN
    [conns1 EXCEPT ![i].layers = SetLayer(@, layer, p)]

\* a sequence without its element i
RemoveAt(s, i) == SubSeq(s, 1, i - 1) \o SubSeq(s, i + 1, Len(s))

\* removeConnection({layer, tabId})
RemoveConnectionWholeTab(conns, tabId, layer) ==
    LET i == TabIndex(conns, tabId) IN
    IF i = 0 THEN conns ELSE RemoveAt(conns, i)

RemoveConnection(conns, tabId, layer) ==
    LET i == TabIndex(conns, tabId) IN
    IF i = 0 THEN conns
    ELSE LET j == LayerIndex(conns[i].layers, layer)
             layers1 == IF j = 0 THEN conns[i].layers ELSE RemoveAt(conns[i].layers, j) IN
         IF Len(layers1) = 0 THEN RemoveAt(conns, i)
         ELSE [conns EXCEPT ![i].layers = layers1]

\* getConnection({layer, tabId}): the port, 0 for undefined
GetConnection(conns, tabId, layer) ==
    LET i == TabIndex(conns, tabId) IN
    IF i = 0 THEN NoPort
    ELSE LET j == LayerIndex(conns[i].layers, layer) IN
         IF j = 0 THEN NoPort ELSE conns[i].layers[j].port

\* the ports held anywhere in the registry
RegisteredPorts(conns) ==
    {conns[i].layers[j].port : <<i, j>> \in
        {<<i, j>> \in (1..Len(conns)) \X (1..Len(ClientLayer)) : j <= Len(conns[i].layers)}}
    \ {NoPort}

CMAdd(tabId, layer, p) ==
    /\ connections' = AddConnection(connections, tabId, layer, p)
    /\ added' = {a \in added : ~(a.tabId = tabId /\ a.layer = layer)}
                  \cup {[tabId |-> tabId, layer |-> layer, port |-> p]}
    /\ last' = [op |-> "addConnection", tabId |-> tabId, layer |-> layer, port |-> p,
                was |-> GetConnection(connections, tabId, layer)]
    /\ UNCHANGED <<hubPorts, dispatched, hubLog>>
    /\ UNCHANGED clientVars /\ UNCHANGED lmVars

CMRemove(tabId, layer) ==
    /\ connections' = RemoveConnection(connections, tabId, layer)
    /\ added' = {a \in added : ~(a.tabId = tabId /\ a.layer = layer)}
    /\ last' = [op |-> "removeConnection", tabId |-> tabId, layer |-> layer,
                was |-> GetConnection(connections, tabId, layer)]
    /\ UNCHANGED <<hubPorts, dispatched, hubLog>>
    /\ UNCHANGED clientVars /\ UNCHANGED lmVars

CMGet(tabId, layer) ==
    /\ last' = [op |-> "getConnection", port |-> GetConnection(connections, tabId, layer)]
    /\ UNCHANGED hubVars /\ UNCHANGED clientVars /\ UNCHANGED lmVars

\* getAllConnections()
CMGetAll ==
    /\ last' = [op |-> "getAllConnections", result |-> connections]
    /\ UNCHANGED hubVars /\ UNCHANGED clientVars /\ UNCHANGED lmVars

(***************************************************************************)
(* BaseBackgroundManager                                                   *)
(* A port name is a sequence of one-character strings.                     *)
(***************************************************************************)
\* String.prototype.split(':'): the segments between the colons
RECURSIVE Split(_)
Split(name) ==
    IF \A i \in 1..Len(name) : name[i] # ":"
    THEN <<name>>
    ELSE LET k == CHOOSE i \in 1..Len(name) :
                      name[i] = ":" /\ \A j \in 1..(i - 1) : name[j] # ":" IN
         <<SubSeq(name, 1, k - 1)>> \o Split(SubSeq(name, k + 1, Len(name)))

\* leading and trailing white space removed
RECURSIVE TrimLeft(_)
TrimLeft(str) == IF str # <<>> /\ str[1] = " " THEN TrimLeft(Tail(str)) ELSE str

RECURSIVE TrimRight(_)
TrimRight(str) ==
    IF str # <<>> /\ str[Len(str)] = " " THEN TrimRight(SubSeq(str, 1, Len(str) - 1)) ELSE str

Trim(str) == TrimRight(TrimLeft(str))

IsDigit(c) == \E i \in 1..10 : DigitChars[i] = c
DigitVal(c) == (CHOOSE i \in 1..10 : DigitChars[i] = c) - 1
AllDigits(str) == \A i \in 1..Len(str) : IsDigit(str[i])

\* the value of a string of decimal digits
RECURSIVE DecimalValue(_)
DecimalValue(str) ==
    IF str = <<>> THEN 0
    ELSE 10 * DecimalValue(SubSeq(str, 1, Len(str) - 1)) + DigitVal(str[Len(str)])

\* a fraction without its trailing zeros
RECURSIVE StripZeros(_)
StripZeros(str) ==
    IF str # <<>> /\ str[Len(str)] = "0" THEN StripZeros(SubSeq(str, 1, Len(str) - 1)) ELSE str

NaN == [nan |-> TRUE, value |-> Num(0)]

\* the number with that sign, whole part and fraction digits; -0 is the key 0
NumberValue(neg, whole, frac) ==
    [nan |-> FALSE,
     value |-> [neg |-> neg /\ (whole # 0 \/ StripZeros(frac) # <<>>),
                whole |-> whole, frac |-> StripZeros(frac)]]

\* Number(string) for strings of digits, signs, points, blanks and letters
\* other than the exponent, radix and Infinity forms: white space is trimmed,
\* the empty string is 0, an optional sign, then digits with an optional point
ToNumber(str) ==
    LET t == Trim(str) IN
    IF t = <<>> THEN [nan |-> FALSE, value |-> Num(0)]
    ELSE LET neg == t[1] = "-"
             u == IF t[1] \in {"+", "-"} THEN Tail(t) ELSE t
             parts == IF \E i \in 1..Len(u) : u[i] = "."
                      THEN LET k == CHOOSE i \in 1..Len(u) :
                                        u[i] = "." /\ \A j \in 1..(i - 1) : u[j] # "." IN
                           <<SubSeq(u, 1, k - 1), SubSeq(u, k + 1, Len(u))>>
                      ELSE <<u, <<>>>> IN
         IF /\ AllDigits(parts[1]) /\ AllDigits(parts[2])
            /\ Len(parts[1]) + Len(parts[2]) > 0
         THEN NumberValue(neg, DecimalValue(parts[1]), parts[2])
         ELSE NaN

\* Object.values(ClientLayer).includes(layer)
IsClientLayer(token) == \E v \in ClientLayers : LayerChars[v] = token

\* extractPortDetails(port): [ok |-> FALSE] stands for undefined
ExtractPortDetailsAnyLayer(name) ==
    LET parts == Split(name)
        numericTabId == IF Len(parts) < 2 THEN NaN ELSE ToNumber(parts[2]) IN
    IF numericTabId.nan
    THEN [ok |-> FALSE]
    ELSE [ok |-> TRUE,
          layer |-> IF IsClientLayer(parts[1])
                    THEN CHOOSE v \in ClientLayers : LayerChars[v] = parts[1]
                    ELSE ClientLayer[1],
          tabId |-> numericTabId.value]

ExtractPortDetails(name) ==
    LET parts == Split(name)
        numericTabId == IF Len(parts) < 2 THEN NaN ELSE ToNumber(parts[2]) IN
    IF ~IsClientLayer(parts[1]) \/ numericTabId.nan
    THEN [ok |-> FALSE]
    ELSE [ok |-> TRUE,
          layer |-> CHOOSE v \in ClientLayers : LayerChars[v] = parts[1],
          tabId |-> numericTabId.value]

\* chrome.runtime.onConnect fires with a new port of that name: handleConnection
HandleConnection(name) ==
    /\ Len(hubPorts) < MaxPorts
    /\ LET p == Len(hubPorts) + 1
           connectionDetails == ExtractPortDetails(name) IN
       IF ~connectionDetails.ok
       THEN /\ hubLog' = [hubLog EXCEPT !.error = @ + 1]
            /\ hubPorts' = Append(hubPorts, [name |-> name, connected |-> TRUE,
                                             accepted |-> FALSE, handlers |-> FALSE,
                                             layer |-> "", tabId |-> Num(0)])
            /\ last' = [op |-> "rejected", port |-> p]
            /\ UNCHANGED connections
       ELSE /\ connections' = AddConnection(connections, connectionDetails.tabId,
                                            connectionDetails.layer, p)
            /\ hubLog' = [hubLog EXCEPT !.info = @ + 1]
            /\ hubPorts' = Append(hubPorts, [name |-> name, connected |-> TRUE,
                                             accepted |-> TRUE, handlers |-> TRUE,
                                             layer |-> connectionDetails.layer,
                                             tabId |-> connectionDetails.tabId])
            /\ last' = [op |-> "accepted", port |-> p]
    /\ UNCHANGED <<dispatched, added>>
    /\ UNCHANGED clientVars /\ UNCHANGED lmVars

\* onDisconnect of port p fires; an accepted port runs handlePortDisconnect
HubPortDisconnectKeeping(p) ==
    /\ p \in 1..Len(hubPorts)
    /\ hubPorts[p].connected
    /\ hubPorts' = [hubPorts EXCEPT ![p].connected = FALSE]
    /\ IF hubPorts[p].handlers
       THEN /\ hubLog' = [hubLog EXCEPT !.info = @ + 1]
            /\ connections' = connections
       ELSE UNCHANGED <<hubLog, connections>>
    /\ last' = [op |-> "hubDisconnect", port |-> p]
    /\ UNCHANGED <<dispatched, added>>
    /\ UNCHANGED clientVars /\ UNCHANGED lmVars

HubPortDisconnect(p) ==
    /\ p \in 1..Len(hubPorts)
    /\ hubPorts[p].connected
    /\ hubPorts' = [hubPorts EXCEPT ![p].connected = FALSE]
    /\ IF hubPorts[p].handlers
       THEN /\ hubLog' = [hubLog EXCEPT !.info = @ + 1]
            /\ connections' = RemoveConnection(connections, hubPorts[p].tabId, hubPorts[p].layer)
       ELSE UNCHANGED <<hubLog, connections>>
    /\ last' = [op |-> "hubDisconnect", port |-> p]
    /\ UNCHANGED <<dispatched, added>>
    /\ UNCHANGED clientVars /\ UNCHANGED lmVars

\* onMessage of port p fires; an accepted port calls listenerManager.notify
HubIncomingMessage(p, message, thr) ==
    /\ p \in 1..Len(hubPorts)
    /\ hubPorts[p].connected
    /\ IF hubPorts[p].handlers
       THEN /\ last' = NotifyResult(message, p, thr)
            /\ dispatched' = dispatched \cup {p}
       ELSE /\ last' = [op |-> "unobserved", port |-> p]
            /\ UNCHANGED dispatched
    /\ UNCHANGED <<connections, hubPorts, hubLog, added>>
    /\ UNCHANGED clientVars /\ UNCHANGED lmVars

\* subscribe(type, listener) of the hub
HubSubscribe(t, l) ==
    /\ Len(closures) < MaxHubSubs
    /\ Subscribe(t, l)

\* the inner loop of sendMessage: one postMessage per chosen layer that holds a port
RECURSIVE PostLayers(_, _, _)
PostLayers(layersRecord, targetLayers, message) ==
    IF targetLayers = <<>> THEN <<>>
    ELSE LET j == LayerIndex(layersRecord, targetLayers[1])
             p == IF j = 0 THEN NoPort ELSE layersRecord[j].port IN
         (IF p = NoPort THEN <<>> ELSE <<[port |-> p, message |-> message]>>)
            \o PostLayers(layersRecord, Tail(targetLayers), message)

\* the outer loop of sendMessage over the chosen tab ids
RECURSIVE PostTabsAllLayers(_, _, _, _)
PostTabsAllLayers(conns, tabIds, selector, message) ==
    IF tabIds = <<>> THEN <<>>
    ELSE LET i == TabIndex(conns, tabIds[1]) IN
         (IF i = 0 THEN <<>>
          ELSE PostLayers(conns[i].layers,
                          [j \in 1..Len(conns[i].layers) |-> conns[i].layers[j].layer],
                          message))
            \o PostTabsAllLayers(conns, Tail(tabIds), selector, message)

RECURSIVE PostTabs(_, _, _, _)
PostTabs(conns, tabIds, selector, message) ==
    IF tabIds = <<>> THEN <<>>
    ELSE LET i == TabIndex(conns, tabIds[1]) IN
         (IF i = 0 THEN <<>>
          ELSE PostLayers(conns[i].layers,
                          IF selector.hasLayer THEN <<selector.layer>>
                          ELSE [j \in 1..Len(conns[i].layers) |-> conns[i].layers[j].layer],
                          message))
            \o PostTabs(conns, Tail(tabIds), selector, message)

\* sendMessage({tabId, layer}, message): the postMessage calls it makes, in order
HubSendMessage(selector, message) ==
    /\ LET tabIds == IF selector.hasTab THEN <<selector.tabId>>
                     ELSE [i \in 1..Len(connections) |-> connections[i].tabId] IN
       last' = [op |-> "hubSend", selector |-> selector, message |-> message,
                posts |-> PostTabs(connections, tabIds, selector, message)]
    /\ UNCHANGED hubVars /\ UNCHANGED clientVars /\ UNCHANGED lmVars

(***************************************************************************)
(* Specifications                                                          *)
(***************************************************************************)
Init ==
    /\ port = NoPort
    /\ pendingMessages = <<>>
    /\ queries = 0
    /\ channels = <<>>
    /\ posted = <<>>
    /\ sendCount = 0
    /\ clientErrors = 0
    /\ listeners = [t \in Types |-> 0]
    /\ sets = <<>>
    /\ closures = <<>>
    /\ subscribed = {}
    /\ connections = <<>>
    /\ hubPorts = <<>>
    /\ dispatched = {}
    /\ hubLog = [error |-> 0, info |-> 0]
    /\ added = {}
    /\ last = NoOp

NextClient ==
    \/ \E t \in Types : SendMessage(t)
    \/ \E tabs \in TabResults : TabsQueryCallback(tabs)
    \/ \E c \in 1..Len(channels) : ClientPortDisconnect(c)

SpecClient == Init /\ [][NextClient]_vars

\* the tab queries that find a tab with an id
UsableTabs == {tabs \in TabResults : Len(tabs) > 0 /\ tabs[1] # 0}

\* a client whose every tab query is answered, and answered with a tab id
NextClientLive ==
    \/ \E t \in Types : sendCount < MaxLiveSends /\ SendMessage(t)
    \/ \E tabs \in UsableTabs : TabsQueryCallback(tabs)
    \/ \E c \in 1..Len(channels) : ClientPortDisconnect(c)

SpecClientLive ==
    /\ Init
    /\ [][NextClientLive]_vars
    /\ WF_vars(\E tabs \in UsableTabs : TabsQueryCallback(tabs))

Messages == [type : Types, data : Data]

\* the listeners that may throw: only those that are invoked matter
Throwers(t) == SUBSET (IF listeners[t] = 0 THEN {} ELSE Range(sets[listeners[t]]))

NextLM ==
    \/ \E t \in Types, l \in Listeners : Subscribe(t, l)
    \/ \E c \in 1..Len(closures) : Unsubscribe(c)
    \/ LMClear
    \/ \E m \in Messages, p \in Senders : \E thr \in Throwers(m.type) : Notify(m, p, thr)

SpecLM == Init /\ [][NextLM]_vars

\* a client that also subscribes, receives messages and drops subscriptions
NextClientListen ==
    \/ \E t \in Types : sendCount < MaxListenSends /\ SendMessage(t)
    \/ \E tabs \in TabResults : TabsQueryCallback(tabs)
    \/ \E c \in 1..Len(channels) : ClientPortDisconnect(c)
    \/ \E m \in ListenMessages, l \in Listeners : ClientSubscribe(m.type, l)
    \/ \E c \in 1..Len(closures) : Unsubscribe(c)
    \/ \E c \in 1..Len(channels), m \in ListenMessages :
          \E thr \in Throwers(m.type) : ClientIncomingMessage(c, m, thr)

SpecClientListen == Init /\ [][NextClientListen]_vars

\* one (type, listener) pair: subscribe and unsubscribe of that pair, and notify
NextPair ==
    \/ Subscribe(PairType, PairListener)
    \/ \E c \in 1..Len(closures) : Unsubscribe(c)
    \/ \E m \in Messages, p \in Senders : \E thr \in Throwers(m.type) : Notify(m, p, thr)

SpecPair == Init /\ [][NextPair]_vars

NextCM ==
    \/ \E tabId \in TabIds, layer \in ClientLayers, p \in CMPorts : CMAdd(tabId, layer, p)
    \/ \E tabId \in TabIds, layer \in ClientLayers : CMRemove(tabId, layer)

SpecCM == Init /\ [][NextCM]_vars

\* the registry of one tab with its lookups
NextCMLookup ==
    \/ \E tabId \in LookupTabIds, layer \in ClientLayers, p \in CMPorts : CMAdd(tabId, layer, p)
    \/ \E tabId \in LookupTabIds, layer \in ClientLayers : CMRemove(tabId, layer)
    \/ \E tabId \in LookupTabIds, layer \in ClientLayers : CMGet(tabId, layer)
    \/ CMGetAll

SpecCMLookup == Init /\ [][NextCMLookup]_vars

Selectors ==
    [hasTab : {FALSE}, tabId : {Num(0)}, hasLayer : {FALSE}, layer : {""}]
    \cup [hasTab : {TRUE}, tabId : HubTabIds, hasLayer : {FALSE}, layer : {""}]
    \cup [hasTab : {FALSE}, tabId : {Num(0)}, hasLayer : {TRUE}, layer : ClientLayers]
    \cup [hasTab : {TRUE}, tabId : HubTabIds, hasLayer : {TRUE}, layer : ClientLayers]

\* the hub as a router: connections come and go, the hub sends
NextHub ==
    \/ \E name \in HubNames : HandleConnection(name)
    \/ \E p \in 1..Len(hubPorts) : HubPortDisconnect(p)
    \/ \E sel \in Selectors, m \in HubMessages : HubSendMessage(sel, m)

SpecHub == Init /\ [][NextHub]_vars

\* the hub as a receiver: connections come and go, messages arrive on them
NextHubListen ==
    \/ \E name \in ListenNames : HandleConnection(name)
    \/ \E p \in 1..Len(hubPorts) : HubPortDisconnect(p)
    \/ \E p \in 1..Len(hubPorts), m \in ListenMessages :
          \E thr \in Throwers(m.type) : HubIncomingMessage(p, m, thr)
    \/ \E t \in Types, l \in Listeners : HubSubscribe(t, l)

SpecHubListen == Init /\ [][NextHubListen]_vars

\* the hub handles incoming connections of any candidate name
NextAccept ==
    /\ Len(hubPorts) < MaxAcceptPorts
    /\ \E name \in Names : HandleConnection(name)

SpecAccept == Init /\ [][NextAccept]_vars

\* the tab ids a client can find: chrome.tabs.TAB_ID_NONE and the positive ids
ClientTabIds == {0 - 1} \cup (1..MaxTabId)

\* the hub handles the connections that clients of any layer open
NextRoundTrip ==
    /\ Len(hubPorts) < MaxAcceptPorts
    /\ \E layer \in ClientLayers, tabId \in ClientTabIds : HandleConnection(PortName(layer, tabId))

SpecRoundTrip == Init /\ [][NextRoundTrip]_vars

(***************************************************************************)
(* Properties                                                              *)
(***************************************************************************)
\* the queue as postMessage calls on port p
Tagged(p, pending) == [i \in 1..Len(pending) |-> [port |-> p, message |-> pending[i]]]

\* C1: a sendMessage call made while no port exists appends its message to
\* the pending queue and posts nothing; when a port becomes available the
\* queue is posted on it in enqueue order and emptied, so that no message
\* is ever posted twice and nothing stays queued while a port exists; a
\* sendMessage call made while a port exists posts at once and leaves the
\* queue unchanged.
C1_QueuedThenFlushedOnce ==
    [][/\ sendCount' = sendCount + 1 =>
            IF port = NoPort
            THEN /\ pendingMessages' = Append(pendingMessages, last'.message)
                 /\ posted' = posted
            ELSE /\ pendingMessages' = pendingMessages
                 /\ posted' = Append(posted, [port |-> port, message |-> last'.message])
       /\ (port' # NoPort /\ port' # port) =>
            /\ posted' = posted \o Tagged(port', pendingMessages)
            /\ pendingMessages' = <<>>
       /\ port' # NoPort => pendingMessages' = <<>>
       /\ \A i, j \in 1..Len(posted') :
            i # j => posted'[i].message # posted'[j].message]_vars

\* three messages were queued, flushed in order on the first port, and a
\* fourth was posted at once
C1_Witness ==
    /\ queries = 2 /\ Len(channels) = 1 /\ port = 1
    /\ pendingMessages = <<>>
    /\ Len(posted) = 4
    /\ \A i \in 1..4 : posted[i].port = 1 /\ posted[i].message.data = i

\* C2: at most one target-id resolution (chrome.tabs.query) is in flight at
\* any time.
C2_SingleResolutionInFlight == queries <= 1

\* C3: at most one channel opened by the client is connected at any time.
C3_SingleConnectedChannel ==
    Cardinality({c \in 1..Len(channels) : channels[c].connected}) <= 1

\* the registry after listener l is removed from type t, the entry of t
\* dropped when no listener remains
RemoveFrom(reg, t, l) ==
    LET s1 == SetDelete(reg[t].listeners, l) IN
    [reg EXCEPT ![t] = IF s1 = <<>> THEN [present |-> FALSE, listeners |-> <<>>]
                       ELSE [present |-> TRUE, listeners |-> s1]]

\* C4: the first invocation of an unsubscribe closure removes exactly its
\* listener from its type, and every later invocation of the same closure
\* leaves the listener registry unchanged.
C4_UnsubscribeIdempotent ==
    [][last'.op = "unsubscribe" =>
          IF last'.again
          THEN Registry' = Registry
          ELSE Registry' = RemoveFrom(Registry, closures[last'.closure].type,
                                      closures[last'.closure].listener)]_vars

\* the number of calls of listener l among calls
CallsOf(calls, l) == Cardinality({i \in 1..Len(calls) : calls[i].listener = l})

C6_NotifyIsolatesFailures ==
    (last.op = "notify" /\ listeners[last.message.type] # 0) =>
        LET s == sets[listeners[last.message.type]] IN
        /\ last.calls = [i \in 1..Len(s) |->
                           [listener |-> s[i], message |-> last.message,
                            senderPort |-> last.senderPort]]
        /\ last.errors = Cardinality({i \in 1..Len(s) : s[i] \in last.thr})
        /\ last.warns = 0
        /\ ~last.failed

\* the first of two listeners threw and the second was still invoked
C6_Witness ==
    /\ last.op = "notify"
    /\ Len(last.calls) = 2
    /\ last.calls[1].listener \in last.thr
    /\ last.calls[2].listener \notin last.thr
    /\ last.errors = 1

\* a selector matches a key
Matches(selector, tabId, layer) ==
    /\ selector.hasTab => selector.tabId = tabId
    /\ selector.hasLayer => selector.layer = layer

\* the ports registered under a key the selector matches
Targets(conns, selector) ==
    {p \in RegisteredPorts(conns) :
        \E i \in 1..Len(conns) : \E j \in 1..Len(conns[i].layers) :
            /\ conns[i].layers[j].port = p
            /\ Matches(selector, conns[i].tabId, conns[i].layers[j].layer)}

\* C7: sendMessage(selector, msg) of the hub posts msg exactly once on each
\* port registered under a key the selector matches and on no other port,
\* logs nothing and leaves the connection registry unchanged.
C7_SendPostsToMatching ==
    [][last'.op = "hubSend" =>
          /\ connections' = connections
          /\ hubLog' = hubLog
          /\ \A k \in 1..Len(last'.posts) : last'.posts[k].message = last'.message
          /\ \A p \in 1..Len(hubPorts) :
                Cardinality({k \in 1..Len(last'.posts) : last'.posts[k].port = p})
                    = IF p \in Targets(connections, last'.selector) THEN 1 ELSE 0]_vars

\* a layer broadcast reached one of two registered ports and not the other
C7_Witness ==
    /\ last.op = "hubSend"
    /\ ~last.selector.hasTab /\ last.selector.hasLayer
    /\ Len(last.posts) = 1
    /\ Cardinality(RegisteredPorts(connections)) = 2

\* the layer token of a name is no ClientLayer value
UnknownLayer(name) == ~IsClientLayer(Split(name)[1])

\* the tab part of a name is missing or holds a character that no numeral has
NonNumericTab(name) ==
    \/ Len(Split(name)) < 2
    \/ \E i \in 1..Len(Split(name)[2]) :
          ~IsDigit(Split(name)[2][i]) /\ Split(name)[2][i] \notin {"+", "-", ".", " "}

\* a ClientLayer value, a colon and decimal digits
PlainName(name) ==
    /\ Len(Split(name)) = 2
    /\ IsClientLayer(Split(name)[1])
    /\ Split(name)[2] # <<>> /\ AllDigits(Split(name)[2])

WellFormedName(name) ==
    /\ Len(Split(name)) = 2
    /\ IsClientLayer(Split(name)[1])
    /\ Split(name)[2] # <<>> /\ AllDigits(Split(name)[2])
    /\ Split(name)[2] = ToDecimalString(DecimalValue(Split(name)[2]))

\* C9: the hub accepts an incoming connection if and only if its name is a
\* recognized role token, one colon and the decimal string of a non-negative
\* integer; every other name is rejected and never registered.
C9_AcceptsExactlyWellFormed ==
    \A p \in 1..Len(hubPorts) :
        /\ hubPorts[p].accepted <=> WellFormedName(hubPorts[p].name)
        /\ ~WellFormedName(hubPorts[p].name) => p \notin RegisteredPorts(connections)

\* C10: the layers added for a tabId and not removed since are all in
\* getAllConnections()[tabId] with their ports; once every layer added for
\* a tabId has been removed, the tabId key is gone.
C10_TabKeyGoneWhenEmpty ==
    \A tabId \in TabIds :
        /\ \A a \in added :
              a.tabId = tabId => GetConnection(connections, tabId, a.layer) = a.port
        /\ (\A a \in added : a.tabId # tabId) => TabIndex(connections, tabId) = 0

\* C11: when a port accepted under (tabId, layer) fires its disconnect
\* event, the hub's registry afterwards holds nothing under (tabId, layer)
\* and holds under every other key, the other layers of that tabId
\* included, what it held before.
C11_DisconnectRemovesOnlyItsKey ==
    [][(/\ last'.op = "hubDisconnect"
        /\ hubPorts[last'.port].connected
        /\ hubPorts[last'.port].handlers) =>
          LET tabId == hubPorts[last'.port].tabId
              layer == hubPorts[last'.port].layer IN
          /\ GetConnection(connections', tabId, layer) = NoPort
          /\ \A q \in 1..Len(hubPorts), ly \in ClientLayers :
                (hubPorts[q].tabId # tabId \/ ly # layer) =>
                    GetConnection(connections', hubPorts[q].tabId, ly)
                        = GetConnection(connections, hubPorts[q].tabId, ly)]_vars

\* an accepted port disconnected while another layer of its tab stays registered
C11_Witness ==
    /\ last.op = "hubDisconnect"
    /\ hubPorts[last.port].accepted
    /\ \E q \in RegisteredPorts(connections) :
          /\ hubPorts[q].tabId = hubPorts[last.port].tabId
          /\ hubPorts[q].layer # hubPorts[last.port].layer

\* C12: when the tab query finds no usable tab id, one error is logged, the
\* port is not set, the pending queue and the posted messages stay as they
\* were and no new resolution is started; a later sendMessage made while no
\* port exists queues its message and starts a new resolution, and the
\* resolution that succeeds posts the whole queue, retained messages first,
\* in the order of the sendMessage calls.
C12_NoTabKeepsQueueForNextSend ==
    [][/\ last'.op = "noTab" =>
            /\ clientErrors' = clientErrors + 1
            /\ port' = port
            /\ channels' = channels
            /\ pendingMessages' = pendingMessages
            /\ posted' = posted
            /\ queries' = queries - 1
       /\ (last'.op = "sendMessage" /\ port = NoPort) =>
            /\ pendingMessages' = Append(pendingMessages, last'.message)
            /\ queries' = queries + 1
       /\ last'.op = "connect" =>
            /\ posted' = posted \o Tagged(port', pendingMessages)
            /\ pendingMessages' = <<>>
       /\ \A i, j \in 1..Len(pendingMessages') :
            i < j => pendingMessages'[i].data < pendingMessages'[j].data
       /\ \A i, j \in 1..Len(posted') :
            i < j => posted'[i].message.data < posted'[j].message.data]_vars

\* the first resolution found no tab, the second send started another one,
\* and its success posted the retained message and then the new one
C12_Witness ==
    /\ last.op = "connect"
    /\ clientErrors = 1 /\ queries = 0 /\ Len(channels) = 1
    /\ pendingMessages = <<>>
    /\ Len(posted) = 2
    /\ posted[1].message.data = 1 /\ posted[2].message.data = 2

\* C13: the disconnect of the client's port clears every subscription and
\* resets the port to absent, so a message arriving next reaches no
\* listener; no channel is opened after the disconnect unless sendMessage
\* is called, and the sendMessage that follows the disconnect queues its
\* message and starts a resolution.
C13_DisconnectResetsClient ==
    [][/\ last'.op = "clientDisconnect" =>
            /\ port' = NoPort
            /\ \A t \in Types : listeners'[t] = 0
       /\ (last.op = "clientDisconnect" /\ last'.op = "notify") => last'.calls = <<>>
       /\ last.op = "clientDisconnect" => Len(channels') = Len(channels)
       /\ (last.op = "clientDisconnect" /\ last'.op = "sendMessage") =>
            /\ pendingMessages' = Append(pendingMessages, last'.message)
            /\ queries' = queries + 1]_vars

\* C14: after any sequence of addConnection and removeConnection calls,
\* getConnection(key) is the port of the most recent addConnection for the
\* key when no removeConnection for the key followed it, and undefined
\* otherwise; an addConnection for a key that holds a port replaces it;
\* getConnection and getAllConnections return what the registry holds and
\* leave it as it was.
C14_LastWriterWins ==
    [][/\ \A tabId \in TabIds, layer \in ClientLayers :
            GetConnection(connections', tabId, layer) =
                (IF \E a \in added' : a.tabId = tabId /\ a.layer = layer
                 THEN (CHOOSE a \in added' : a.tabId = tabId /\ a.layer = layer).port
                 ELSE NoPort)
       /\ \A a, b \in added' : (a.tabId = b.tabId /\ a.layer = b.layer) => a = b
       /\ last'.op = "addConnection" =>
            GetConnection(connections', last'.tabId, last'.layer) = last'.port
       /\ last'.op = "getConnection" =>
            /\ connections' = connections
            /\ \E tabId \in TabIds, layer \in ClientLayers :
                  last'.port = GetConnection(connections, tabId, layer)
       /\ last'.op = "getAllConnections" =>
            /\ connections' = connections
            /\ last'.result = connections]_vars

\* an addConnection replaced the port another addConnection had registered
C14_Witness ==
    /\ last.op = "addConnection"
    /\ last.was # NoPort /\ last.was # last.port
    /\ GetConnection(connections, last.tabId, last.layer) = last.port
    /\ last.was \notin RegisteredPorts(connections)

\* C15: after any sequence of subscribe, unsubscribe-closure and clear
\* calls, every type that has an entry has a non-empty listener set in
\* which each callback appears once; the closure that removes the last
\* listener of its type's set removes the type entry.
C15_NoEmptySetNoDuplicate ==
    [][/\ \A t \in Types :
            listeners'[t] # 0 =>
                /\ sets'[listeners'[t]] # <<>>
                /\ \A i, j \in 1..Len(sets'[listeners'[t]]) :
                      i # j => sets'[listeners'[t]][i] # sets'[listeners'[t]][j]
       /\ last'.op = "unsubscribe" =>
            LET cl == closures[last'.closure] IN
            (listeners[cl.type] = cl.set /\ sets[cl.set] = <<cl.listener>>) =>
                listeners'[cl.type] = 0]_vars

\* the last listener of one type was unsubscribed and the type's entry is
\* gone, while the other type keeps its listener
C15_Witness ==
    /\ last.op = "unsubscribe" /\ ~last.again
    /\ listeners[closures[last.closure].type] = 0
    /\ sets[closures[last.closure].set] = <<>>
    /\ \E t \in Types : listeners[t] # 0 /\ Len(sets[listeners[t]]) = 1

\* C16: notify for a message whose type has no entry returns normally,
\* invokes no listener, logs one warning and no error, and leaves the
\* registry as it was.
C16_NotifyWithoutSubscribers ==
    [][(last'.op = "notify" /\ listeners[last'.message.type] = 0) =>
          /\ ~last'.failed
          /\ last'.calls = <<>>
          /\ last'.warns = 1
          /\ last'.errors = 0
          /\ listeners' = listeners /\ sets' = sets]_vars

\* a message of a type without subscribers was notified while the other
\* type had a subscriber
C16_Witness ==
    /\ last.op = "notify"
    /\ listeners[last.message.type] = 0
    /\ last.warns = 1 /\ last.calls = <<>>
    /\ \E t \in Types : listeners[t] # 0

\* the registry as a reader sees it: the tab keys, each with the layers
\* that hold a port
HoldsPort(entry) == entry.port # NoPort
Registered(conns) ==
    [i \in 1..Len(conns) |->
        [tabId |-> conns[i].tabId, layers |-> SelectSeq(conns[i].layers, HoldsPort)]]

\* C17: removeConnection for a key that holds no port leaves the registry
\* with the tab keys and the ports it had before the call, whether or not
\* other layers of the tabId hold a port.
C17_RemoveUnregisteredIsNoOp ==
    [][(last'.op = "removeConnection" /\ last'.was = NoPort) =>
          Registered(connections') = Registered(connections)]_vars

\* C18: when every tab query that was started is answered with a usable
\* tab id, every message given to sendMessage is eventually posted on a
\* port, whatever disconnects happen in between.
C18_EverySentMessagePosted ==
    \A n \in 1..MaxLiveSends :
        (sendCount >= n) ~> (\E i \in 1..Len(posted) : posted[i].message.data = n)

\* the first port disconnected, and a message queued after that was posted
\* on the second port
C18_Witness ==
    /\ Len(channels) >= 2 /\ ~channels[1].connected
    /\ pendingMessages = <<>>
    /\ \E i \in 1..Len(posted) :
          /\ posted[i].port = 2
          /\ \A j \in 1..Len(posted) : posted[j].port = 1 => j < i
    /\ \E j \in 1..Len(posted) : posted[j].port = 1

\* the number an integer is
IntegerNum(n) == [neg |-> n < 0, whole |-> IF n < 0 THEN 0 - n ELSE n, frac |-> <<>>]

\* C19: for every layer and every tab id a client can open a channel for,
\* the hub accepts the name the client builds and registers the port under
\* exactly that layer and that tab id.
C19_NameRoundTrip ==
    \A p \in 1..Len(hubPorts), layer \in ClientLayers, tabId \in ClientTabIds :
        hubPorts[p].name = PortName(layer, tabId) =>
            /\ hubPorts[p].accepted
            /\ hubPorts[p].layer = layer
            /\ hubPorts[p].tabId = IntegerNum(tabId)
            /\ LET q == GetConnection(connections, IntegerNum(tabId), layer) IN
                  q # NoPort /\ hubPorts[q].name = hubPorts[p].name

\* a devtools client of tab 40 was registered under (40, devtools)
C19_Witness ==
    /\ Len(hubPorts) = 1
    /\ hubPorts[1].name = PortName("devtools", MaxTabId)
    /\ hubPorts[1].accepted
    /\ GetConnection(connections, Num(MaxTabId), "devtools") = 1

\* C20: invoking an unsubscribe closure that was handed out before a
\* clear() leaves every type entry and every listener registered after
\* that clear() in place.
C20_ClearedClosureHarmless ==
    [][(last'.op = "unsubscribe" /\ closures[last'.closure].cleared) =>
          \A t \in Types :
              /\ listeners'[t] = listeners[t]
              /\ listeners[t] # 0 => sets'[listeners[t]] = sets[listeners[t]]]_vars

\* C21: for every key, while the port most recently accepted under the key
\* has not fired its disconnect event, getConnection(key) is that port,
\* whatever other ports of the same key connect and disconnect.
C21_ConnectedPortStaysAddressable ==
    \A p \in 1..Len(hubPorts) :
        (/\ hubPorts[p].accepted
         /\ hubPorts[p].connected
         /\ \A q \in (p + 1)..Len(hubPorts) :
               ~(/\ hubPorts[q].accepted
                 /\ hubPorts[q].tabId = hubPorts[p].tabId
                 /\ hubPorts[q].layer = hubPorts[p].layer))
        => GetConnection(connections, hubPorts[p].tabId, hubPorts[p].layer) = p

\* C22: while some channel the client opened is connected the client's
\* port is present, so a message arriving on a connected channel passes
\* the guard of handleIncomingMessage, and the subscriptions are cleared
\* only by the disconnect of the channel that is the client's port.
C22_PortPresentWhileConnected ==
    [][/\ (\E c \in 1..Len(channels') : channels'[c].connected) => port' # NoPort
       /\ last'.op # "unobserved"
       /\ (last'.op = "clientDisconnect" /\ port # NoPort) => last'.port = port]_vars

\* the numbers of the sendMessage calls whose messages were posted, in the
\* order of the postMessage calls
PostedCalls == [i \in 1..Len(posted) |-> posted[i].message.data]

\* C23: over all the ports the client ever opens, the postMessage calls
\* are in the order of the sendMessage calls that supplied their messages,
\* and no message is posted twice; a message not yet posted is in the queue.
C23_PostsInSendOrder ==
    /\ \A i, j \in 1..Len(PostedCalls) : i < j => PostedCalls[i] < PostedCalls[j]
    /\ \A n \in 1..sendCount :
          \/ \E i \in 1..Len(PostedCalls) : PostedCalls[i] = n
          \/ \E k \in 1..Len(pendingMessages) : pendingMessages[k].data = n
    /\ \A i \in 1..Len(PostedCalls), k \in 1..Len(pendingMessages) :
          PostedCalls[i] < pendingMessages[k].data

\* a failed resolution, two queued messages flushed on port 1, an immediate
\* send on port 1, a disconnect, and a fourth message flushed on port 2
C23_Witness ==
    /\ clientErrors = 1
    /\ PostedCalls = <<1, 2, 3, 4>>
    /\ posted[1].port = 1 /\ posted[2].port = 1 /\ posted[3].port = 1 /\ posted[4].port = 2
    /\ ~channels[1].connected
    /\ last.op = "connect"

\* C24: every port the hub's registry holds under any key was accepted
\* and has not fired its disconnect event, so every postMessage call of
\* the hub's sendMessage is made on a connected port.
C24_RegistryHoldsConnectedPorts ==
    /\ \A p \in RegisteredPorts(connections) :
          /\ p \in 1..Len(hubPorts)
          /\ hubPorts[p].accepted
          /\ hubPorts[p].connected
    /\ last.op = "hubSend" =>
          \A i \in 1..Len(last.posts) : hubPorts[last.posts[i].port].connected

\* after an accepted port disconnected, the hub's sendMessage posted on the
\* port that is still connected
C24_Witness ==
    /\ last.op = "hubSend"
    /\ Len(last.posts) = 1
    /\ \E q \in 1..Len(hubPorts) : hubPorts[q].accepted /\ ~hubPorts[q].connected

\* C25: the client's port, whenever present, is a channel that has not
\* fired its disconnect event, and every postMessage call of sendMessage
\* and flushPendingMessages is made on a channel that is connected.
C25_PortIsConnectedChannel ==
    [][/\ port' # NoPort =>
            /\ port' \in 1..Len(channels')
            /\ channels'[port'].connected
       /\ \A i \in (Len(posted) + 1)..Len(posted') :
            /\ posted'[i].port = port'
            /\ channels'[posted'[i].port].connected]_vars

\* the first channel disconnected, a second one was opened, and sendMessage
\* posted on it at once
C25_Witness ==
    /\ Len(channels) = 2
    /\ ~channels[1].connected /\ channels[2].connected
    /\ port = 2
    /\ last.op = "sendMessage"
    /\ posted # <<>> /\ posted[Len(posted)] = [port |-> 2, message |-> last.message]

====
